---- MODULE Spec2Model ----
(***************************************************************************)
(* Stability-driven chunking of curv-embedding: the offline boundary       *)
(* selector (src/chunking/offline.py), the cut-score composer              *)
(* (src/chunking/cut_score.py) and the streaming chunker                   *)
(* (src/chunking/streaming.py).                                            *)
(*                                                                         *)
(* Bytes are integers; a document is a sequence of bytes, so Python's      *)
(* data[i] is data[i + 1] here.  Scores are rationals in the code; the     *)
(* model holds score * L_target_bytes, an integer for the integer weights  *)
(* of the configurations below, which preserves every comparison the code  *)
(* makes.  S is held in thousandths, rounded down.                         *)
(***************************************************************************)
EXTENDS Integers, Sequences, FiniteSets, TLC

VARIABLES
    config,          \* ChunkingConfig plus the signal_window argument
    data,            \* chunk_offline: the document
    pc,              \* chunk_offline: "start", "loop", "done" or "raised"
    current_start,   \* chunk_offline: start of the open chunk
    chunks,          \* chunk_offline: the list of chunks built so far
    state,           \* StreamingChunker.state (StreamingChunkerState)
    finalized,       \* StreamingChunker._finalized
    gens,            \* generator objects returned by feed() and finalize()
    fed,             \* bytes appended to the buffer since construction/reset
    emitted,         \* chunks yielded by the generators since construction/reset
    finalize_called, \* finalize() has been called and reset() has not been called since
    last_commit,     \* arguments of the _commit_at_boundary call that has just returned a chunk
    hybrid,          \* config.hybrid (HybridConfig)
    versions,        \* TemporalDocument.versions of one document
    edit_windows,    \* TemporalDocument.edit_windows of that document
    version_t,       \* the number of versions the driver loop has chunked
    prev_chunks,     \* doc_prev_chunks.get(doc_id)
    hybrid_call,     \* the last call of hybrid_chunk with a previous partition: arguments and result
    clock,           \* the time datetime.now() returns
    manifests,       \* the calls of generate_manifest made so far and what they returned
    maxima_call,     \* a call of _find_local_maxima and what it returned
    micro_call       \* a call of micro_chunk and what it returned

offlineVars == <<data, pc, current_start, chunks>>
streamVars == <<state, finalized, gens, fed, emitted, finalize_called, last_commit>>
hybridVars == <<hybrid, versions, edit_windows, version_t, prev_chunks, hybrid_call>>
manifestVars == <<clock, manifests>>
extVars == <<hybridVars, manifestVars, maxima_call, micro_call>>

vars == <<config, offlineVars, streamVars, extVars>>

(***************************************************************************)
(* Bounds of the model.                                                    *)
(***************************************************************************)
MaxLen == 6          \* longest document given to chunk_offline
MaxMinBytes == 2     \* largest min_bytes
MaxMaxBytes == 3     \* largest max_bytes
MaxChunks == 5       \* chunk_offline stops being stepped after this many chunks
MaxCalls == 3        \* feed()/finalize() calls on one StreamingChunker
MaxLive == 2         \* generator objects not yet exhausted at one time
MaxFragLen == 2      \* longest fragment passed to feed()
MaxFed == 4          \* most bytes passed to feed() between two resets
MaxSustained == 4    \* the decision loop is not stepped past this soft_trigger_count
MaxDocLen == 4       \* longest first version of a temporal document
MaxVersions == 2     \* num_versions of the temporal corpus
MaxEditLen == 2      \* most bytes an update adds, and most it replaces
MaxMicroBytes == 2   \* largest micro_chunk_bytes
MaxGuardBand == 1    \* largest guard_band_bytes
MaxManifests == 2    \* calls of generate_manifest
MaxClock == 1        \* latest time datetime.now() returns
MaxScores == 4       \* longest score list given to _find_local_maxima
MaxScore == 2        \* largest cut-score in such a list
MaxMinDistance == 2  \* largest min_distance

(***************************************************************************)
(* Program constants.                                                      *)
(***************************************************************************)
NEWLINE == 10
min_samples == 10
RingMaxlen == 256

\* the alphabet of the documents: a newline and one other byte
Bytes == {NEWLINE, 97}

Min(a, b) == IF a <= b THEN a ELSE b
Max(a, b) == IF a >= b THEN a ELSE b

\* Python's s[a:b] for a list/bytes s, negative indices counted from the end.
PySlice(s, a, b) ==
    LET n == Len(s)
        lo == IF a < 0 THEN Max(0, a + n) ELSE Min(a, n)
        hi == IF b < 0 THEN Max(0, b + n) ELSE Min(b, n)
    IN IF lo >= hi THEN << >> ELSE SubSeq(s, lo + 1, hi)

SeqsUpTo(S, n) == UNION {[1..k -> S] : k \in 0..n}

(***************************************************************************)
(* Configurations.  The K, D and S terms of the cut-score are switched     *)
(* off by their feature toggles; the B and L terms are on.  The normalizer *)
(* window (commit_horizon_bytes) is below min_samples, so every normalizer *)
(* returns the raw value.                                                  *)
(***************************************************************************)
BaseConfig ==
    [min_bytes |-> 256, max_bytes |-> 4096, overlap_bytes |-> 64,
     commit_horizon_bytes |-> 4, L_target_bytes |-> 2,
     wB |-> 2, wL |-> 1,
     use_lil_boundaries |-> TRUE, use_curvature |-> FALSE,
     use_disharmony |-> FALSE, use_stability_margin |-> FALSE,
     soft_trigger_threshold |-> 2, soft_trigger_sustain_steps |-> 3,
     signal_window |-> 2]

\* min_bytes >= 1, max_bytes > min_bytes, 0 <= overlap_bytes < max_bytes
ValidConfig(c) ==
    /\ c.min_bytes >= 1
    /\ c.max_bytes > c.min_bytes
    /\ c.overlap_bytes >= 0
    /\ c.overlap_bytes < c.max_bytes
    /\ c.wB >= 0
    /\ c.wL >= 0

SizedConfigs ==
    {[[[BaseConfig EXCEPT !.min_bytes = mn] EXCEPT !.max_bytes = mx]
        EXCEPT !.overlap_bytes = ov] :
        mn \in 1..MaxMinBytes, mx \in 2..MaxMaxBytes, ov \in 0..(MaxMaxBytes - 1)}

OfflineConfigs == {c \in SizedConfigs : ValidConfig(c)}

\* configurations the specification calls invalid
InvalidConfigs ==
    {c \in {[[[[BaseConfig EXCEPT !.min_bytes = mn] EXCEPT !.max_bytes = mx]
                 EXCEPT !.overlap_bytes = ov] EXCEPT !.wB = w, !.soft_trigger_sustain_steps = 1] :
                mn \in 0..MaxMinBytes, mx \in 1..MaxMaxBytes, ov \in 0..MaxMaxBytes,
                w \in {-1, 2}} : ~ValidConfig(c)}

StreamConfigs ==
    {[c EXCEPT !.soft_trigger_sustain_steps = st] :
        c \in OfflineConfigs, st \in 1..2}

(***************************************************************************)
(* Signal extractor (offline.py) and cut-score composer (cut_score.py).    *)
(***************************************************************************)
relu(x) == Max(0, x)

\* Shannon entropy in bits of a window of at most two bytes: 1 when the two
\* bytes differ, 0 otherwise.
EntropyOf(w) ==
    IF Len(w) = 0 THEN 0
    ELSE IF Len(w) = 2 /\ w[1] # w[2] THEN 1 ELSE 0

\* four times the variance of a window of at most two bytes
Variance4Of(w) ==
    IF Len(w) < 2 THEN 0 ELSE (w[1] - w[2]) * (w[1] - w[2])

_compute_byte_entropy(d, start, window) ==
    LET end == Min(start + window, Len(d))
    IN IF end <= start THEN 0 ELSE EntropyOf(PySlice(d, start, end))

_compute_byte_variance(d, start, window) ==
    LET end == Min(start + window, Len(d))
    IN IF end <= start THEN 0 ELSE Variance4Of(PySlice(d, start, end))

\* Python's s[i]; a negative i counts from the end
PyIndex(s, i) == IF i < 0 THEN s[Len(s) + i + 1] ELSE s[i + 1]

\* s[i] raises IndexError
IndexError(s, i) == i >= Len(s) \/ i < -Len(s)

_is_structural_boundary(d, pos) ==
    IF pos >= Len(d) THEN FALSE ELSE PyIndex(d, pos) = NEWLINE

\* S = 8 / (1 + variance / 1000), in thousandths
StabilityOf(variance4) == (8000 * 4000) \div (4000 + variance4)

_compute_signals_at_position(d, pos, chunk_start, signal_window) ==
    [K |-> _compute_byte_entropy(d, Max(0, pos - signal_window \div 2), signal_window),
     S |-> StabilityOf(_compute_byte_variance(d, Max(0, pos - signal_window \div 2),
                                              signal_window)),
     D |-> 0,
     B |-> IF _is_structural_boundary(d, pos) THEN 1 ELSE 0,
     L |-> pos - chunk_start]

\* RollingNormalizer: the model keeps the number of samples in the window.
\* With window_size < min_samples update() always returns the raw value.
NormalizerCount(count, window_size) == Min(count + 1, window_size)

normalize(signals) ==
    [K_norm |-> signals.K, S_norm |-> signals.S, D_norm |-> signals.D,
     B |-> signals.B, L |-> signals.L]

\* the score times ScoreScale(c)
ScoreScale(c) == IF c.L_target_bytes > 0 THEN c.L_target_bytes ELSE 1

compute_cut_score(signals, c) ==
    LET norm == normalize(signals)
    IN (IF c.use_lil_boundaries THEN c.wB * norm.B * ScoreScale(c) ELSE 0)
       + (IF c.L_target_bytes > 0
          THEN c.wL * relu(norm.L - c.L_target_bytes) ELSE 0)

ZeroSignals(len) == [K |-> 0, S |-> 0, D |-> 0, B |-> 0, L |-> len]
ZeroNorm(len) == [K_norm |-> 0, S_norm |-> 0, D_norm |-> 0, B |-> 0, L |-> len]

Chunk(bs, be, content, score, signals, norm) ==
    [byte_start |-> bs, byte_end |-> be, content |-> content,
     cut_score |-> score, signals |-> signals, normalized_signals |-> norm]


(***************************************************************************)
(* chunk_offline (offline.py).                                             *)
(***************************************************************************)
\* first pass: one entry per position, L measured from current_chunk_start = 0
AllScores(d, c) ==
    [i \in 1..Len(d) |->
        LET signals == _compute_signals_at_position(d, i - 1, 0, c.signal_window)
        IN [pos |-> i - 1, score |-> compute_cut_score(signals, c),
            signals |-> signals, norm |-> normalize(signals)]]

Abs(x) == IF x < 0 THEN -x ELSE x

\* a variant without the tie-breaker: an equal neighbour on either side
\* suppresses an entry
FindLocalMaximaTiesRejected(scores, min_distance) ==
    LET is_maximum(e) ==
            \A j \in 1..Len(scores) :
                LET o == scores[j]
                IN (o.pos # e.pos /\ Abs(e.pos - o.pos) <= min_distance)
                   => ~(o.score >= e.score)
    IN SelectSeq(scores, is_maximum)

\* the entries of scores, in list order, that no neighbour within
\* min_distance beats; of equal neighbours the later position wins
_find_local_maxima(scores, min_distance) ==
    LET is_maximum(e) ==
            \A j \in 1..Len(scores) :
                LET o == scores[j]
                IN (o.pos # e.pos /\ Abs(e.pos - o.pos) <= min_distance)
                   => ~(o.score > e.score \/ (o.score = e.score /\ o.pos > e.pos))
    IN SelectSeq(scores, is_maximum)

\* Python's max(seq, key=score): the first entry with the greatest score
PyMaxByScore(seq) ==
    seq[CHOOSE i \in 1..Len(seq) :
            \A j \in 1..Len(seq) :
                /\ seq[j].score <= seq[i].score
                /\ (j < i => seq[j].score < seq[i].score)]

ShortChunkDefaultSignals(d) ==
    Chunk(0, Len(d), d, 0, ZeroSignals(0), ZeroNorm(0))

\* the single chunk of a document no longer than min_bytes
ShortChunk(d) ==
    Chunk(0, Len(d), d, 0, ZeroSignals(Len(d)), ZeroNorm(Len(d)))

\* the last chunk: everything from current_start, with the best recorded
\* score above 0 among positions at least min_bytes into it
FinalChunk(d, c, all, cs) ==
    LET remaining == Len(d) - cs
        inside(e) == cs < e.pos /\ e.pos <= Len(d) /\ e.pos >= cs + c.min_bytes
        eligible == SelectSeq(all, inside)
        best == IF eligible # << >> /\ PyMaxByScore(eligible).score > 0
                THEN PyMaxByScore(eligible)
                ELSE [pos |-> Len(d), score |-> 0, signals |-> ZeroSignals(remaining),
                      norm |-> ZeroNorm(remaining)]
    IN Chunk(cs, Len(d), PySlice(d, cs, Len(d)), best.score, best.signals, best.norm)

MaxPosPastWindow(d, c, cs) == Min(cs + c.max_bytes + 1, Len(d))

MaxPos(d, c, cs) == Min(cs + c.max_bytes, Len(d))

Candidates(d, c, all, cs) ==
    LET min_pos == cs + c.min_bytes
        max_pos == MaxPos(d, c, cs)
        inWindow(e) == min_pos <= e.pos /\ e.pos <= max_pos
    IN SelectSeq(all, inWindow)

\* no candidate in the window: cut at max_pos
ForcedChunk(d, c, cs) ==
    LET end_pos == MaxPos(d, c, cs)
        signals == _compute_signals_at_position(d, end_pos, cs, c.signal_window)
    IN Chunk(cs, end_pos, PySlice(d, cs, end_pos), 0, signals,
             [K_norm |-> 0, S_norm |-> 0, D_norm |-> 0, B |-> signals.B,
              L |-> end_pos - cs])

BestCandidate(c, candidates) ==
    LET maxima == _find_local_maxima(candidates, c.min_bytes \div 4)
    IN IF maxima # << >> THEN PyMaxByScore(maxima) ELSE PyMaxByScore(candidates)

NextStartSkipsByte(d, c, end_pos) ==
    IF c.overlap_bytes > 0 /\ end_pos < Len(d)
    THEN end_pos - c.overlap_bytes
    ELSE end_pos + 1

\* current_start after a chunk ending at end_pos
NextStart(d, c, end_pos) ==
    IF c.overlap_bytes > 0 /\ end_pos < Len(d)
    THEN end_pos - c.overlap_bytes
    ELSE end_pos

\* chunk_offline up to the greedy loop
OfflineCall ==
    /\ pc = "start"
    /\ IF Len(data) = 0
       THEN /\ chunks' = << >>
            /\ pc' = "done"
            /\ UNCHANGED current_start
       ELSE IF Len(data) <= config.min_bytes
       THEN /\ chunks' = << ShortChunk(data) >>
            /\ pc' = "done"
            /\ UNCHANGED current_start
       ELSE /\ chunks' = << >>
            /\ current_start' = 0
            /\ pc' = "loop"
    /\ UNCHANGED <<config, data>>
    /\ UNCHANGED <<streamVars, extVars>>

\* one iteration of `while current_start < len(data)`
GreedyIteration ==
    /\ pc = "loop"
    /\ Len(chunks) < MaxChunks
    /\ LET all == AllScores(data, config)
           candidates == Candidates(data, config, all, current_start)
       IN IF ~(current_start < Len(data))
          THEN /\ pc' = "done"
               /\ UNCHANGED <<chunks, current_start>>
          ELSE IF Len(data) - current_start <= config.max_bytes
          THEN /\ chunks' = Append(chunks, FinalChunk(data, config, all, current_start))
               /\ pc' = "done"
               /\ UNCHANGED current_start
          ELSE IF candidates = << >>
                  /\ MaxPos(data, config, current_start) < Len(data)
                  /\ IndexError(data, MaxPos(data, config, current_start))
          THEN /\ pc' = "raised"
               /\ UNCHANGED <<chunks, current_start>>
          ELSE IF candidates = << >>
          THEN /\ chunks' = Append(chunks, ForcedChunk(data, config, current_start))
               /\ current_start' = MaxPos(data, config, current_start) - config.overlap_bytes
               /\ pc' = "loop"
          ELSE LET best == BestCandidate(config, candidates)
               IN /\ chunks' = Append(chunks,
                                   Chunk(current_start, best.pos,
                                         PySlice(data, current_start, best.pos),
                                         best.score, best.signals, best.norm))
                  /\ current_start' = NextStart(data, config, best.pos)
                  /\ pc' = "loop"
    /\ UNCHANGED <<config, data>>
    /\ UNCHANGED <<streamVars, extVars>>


(***************************************************************************)
(* Streaming chunker (streaming.py).                                       *)
(***************************************************************************)
None == [none |-> TRUE]

\* StreamingChunkerState(); normalizers holds the sample count of each of
\* the three RollingNormalizers (they are always updated together)
InitState ==
    [buffer |-> << >>, global_offset |-> 0, chunk_start_offset |-> 0,
     normalizers |-> 0, best_boundary |-> None, soft_trigger_count |-> 0,
     candidates |-> << >>]

BoundaryCandidate(position, global_position, score, signals, norm) ==
    [position |-> position, global_position |-> global_position, score |-> score,
     signals |-> signals, normalized_signals |-> norm]

_compute_byte_entropy_buffer(buffer, start, window) ==
    LET end == Min(start + window, Len(buffer))
    IN IF end <= start THEN 0 ELSE EntropyOf(PySlice(buffer, start, end))

_compute_byte_variance_buffer(buffer, start, window) ==
    LET end == Min(start + window, Len(buffer))
    IN IF end <= start THEN 0 ELSE Variance4Of(PySlice(buffer, start, end))

_compute_signals_at_buffer_position(buffer, pos, chunk_length, signal_window) ==
    [K |-> _compute_byte_entropy_buffer(buffer, Max(0, pos - signal_window \div 2),
                                        signal_window),
     S |-> StabilityOf(_compute_byte_variance_buffer(
                           buffer, Max(0, pos - signal_window \div 2), signal_window)),
     D |-> 0,
     B |-> IF pos < Len(buffer) /\ buffer[pos + 1] = NEWLINE THEN 1 ELSE 0,
     L |-> chunk_length]

\* the candidate scored at buffer position pos for an open chunk of chunk_length
ScoredCandidate(s, c, pos, chunk_length) ==
    LET signals == _compute_signals_at_buffer_position(s.buffer, pos, chunk_length,
                                                       c.signal_window)
    IN BoundaryCandidate(pos, s.global_offset + pos, compute_cut_score(signals, c),
                         signals, normalize(signals))

\* deque(maxlen=256).append
RingAppend(ring, e) ==
    IF Len(ring) >= RingMaxlen THEN Append(Tail(ring), e) ELSE Append(ring, e)

AdvanceUnclamped(end_pos, c) ==
    LET overlap == IF c.overlap_bytes > 0 THEN c.overlap_bytes ELSE 0
    IN Max(0, end_pos - overlap)

AdvanceSkipping(end_pos, c) ==
    LET overlap == IF c.overlap_bytes > 0 THEN c.overlap_bytes ELSE 0
    IN Max(1, end_pos - overlap + 1)

\* bytes dropped from the front of the buffer by a commit at end_pos
Advance(end_pos, c) ==
    LET overlap == IF c.overlap_bytes > 0 THEN c.overlap_bytes ELSE 0
    IN Max(1, end_pos - overlap)

ChunkContentWholeBuffer(buffer, end_pos) == buffer

\* content = bytes(state.buffer[:end_pos])
ChunkContent(buffer, end_pos) == PySlice(buffer, 0, end_pos)

CommittedStateFreshNormalizers(s, advance) ==
    [s EXCEPT !.buffer = PySlice(s.buffer, advance, Len(s.buffer)),
              !.global_offset = s.global_offset + advance,
              !.chunk_start_offset = s.global_offset + advance,
              !.candidates = << >>,
              !.best_boundary = None,
              !.soft_trigger_count = 0,
              !.normalizers = 0]

CommittedStateOldChunkStart(s, advance) ==
    [s EXCEPT !.buffer = PySlice(s.buffer, advance, Len(s.buffer)),
              !.global_offset = s.global_offset + advance,
              !.candidates = << >>,
              !.best_boundary = None,
              !.soft_trigger_count = 0]

\* the state a commit leaves: the buffer advanced, the offsets moved, the
\* ring, best_boundary and soft-trigger count cleared
CommittedState(s, advance) ==
    [s EXCEPT !.buffer = PySlice(s.buffer, advance, Len(s.buffer)),
              !.global_offset = s.global_offset + advance,
              !.chunk_start_offset = s.global_offset + advance,
              !.candidates = << >>,
              !.best_boundary = None,
              !.soft_trigger_count = 0]

\* result of a commit: the new state and the chunk, or None; before and
\* boundary are the arguments of the call
_commit_at_boundary(s, boundary, c) ==
    IF boundary = None \/ Len(s.buffer) = 0
    THEN [before |-> s, boundary |-> boundary, state |-> s, chunk |-> None]
    ELSE LET end_pos == Min(boundary.position, Len(s.buffer))
             advance == Advance(end_pos, c)
         IN IF end_pos <= 0
            THEN [before |-> s, boundary |-> boundary, state |-> s, chunk |-> None]
            ELSE [before |-> s, boundary |-> boundary,
                  state |-> CommittedState(s, advance),
                  chunk |->
                    Chunk(s.chunk_start_offset, s.chunk_start_offset + end_pos,
                          ChunkContent(s.buffer, end_pos), boundary.score,
                          boundary.signals, boundary.normalized_signals)]

FirstWorst(seq) ==
    seq[CHOOSE i \in 1..Len(seq) :
            \A j \in 1..Len(seq) :
                /\ seq[j].score >= seq[i].score
                /\ (j < i => seq[j].score > seq[i].score)]

\* the first of the greatest-scored entries of a sequence of candidates
FirstBest(seq) ==
    seq[CHOOSE i \in 1..Len(seq) :
            \A j \in 1..Len(seq) :
                /\ seq[j].score <= seq[i].score
                /\ (j < i => seq[j].score < seq[i].score)]

\* hard trigger: a recorded candidate in [min_bytes, max_pos], else the
\* range rescored, else max_pos
_commit_chunk_at_best_boundary(s, c) ==
    IF Len(s.buffer) = 0
    THEN [before |-> s, boundary |-> None, state |-> s, chunk |-> None]
    ELSE LET min_pos == c.min_bytes
             max_pos == Min(c.max_bytes, Len(s.buffer))
             inRange(cand) == min_pos <= cand.position /\ cand.position <= max_pos
             recorded == SelectSeq(s.candidates, inRange)
             scanned == [i \in 1..Max(0, max_pos + 1 - min_pos) |->
                            ScoredCandidate(s, c, min_pos + i - 1, min_pos + i - 1)]
             updates == IF recorded # << >> THEN 0
                        ELSE IF scanned # << >> THEN Len(scanned)
                        ELSE 1
             normalizers == Min(s.normalizers + updates, c.commit_horizon_bytes)
             best_candidate ==
                 IF recorded # << >> THEN FirstBest(recorded)
                 ELSE IF scanned # << >> THEN FirstBest(scanned)
                 ELSE ScoredCandidate(s, c, max_pos, max_pos)
         IN _commit_at_boundary([s EXCEPT !.normalizers = normalizers],
                                best_candidate, c)

CommitRemainingKeepsOverlap(s, c) ==
    IF Len(s.buffer) = 0
    THEN [state |-> s, chunk |-> None]
    ELSE LET pos == Len(s.buffer)
             cand == ScoredCandidate(s, c, pos - 1, pos)
             committed == _commit_at_boundary(s, [cand EXCEPT !.position = pos], c)
         IN [state |-> committed.state, chunk |-> committed.chunk]

\* finalization: the whole buffer as one chunk
_commit_remaining(s, c) ==
    IF Len(s.buffer) = 0
    THEN [state |-> s, chunk |-> None]
    ELSE LET pos == Len(s.buffer)
             cand == ScoredCandidate(s, c, pos - 1, pos)
         IN [state |->
               [s EXCEPT !.buffer = << >>,
                         !.global_offset = s.global_offset + pos,
                         !.chunk_start_offset = s.global_offset + pos,
                         !.candidates = << >>,
                         !.best_boundary = None,
                         !.soft_trigger_count = 0,
                         !.normalizers = NormalizerCount(s.normalizers,
                                                         c.commit_horizon_bytes)],
             chunk |->
               Chunk(s.chunk_start_offset, s.chunk_start_offset + pos, s.buffer,
                     cand.score, cand.signals, cand.normalized_signals)]


\* a call of _commit_at_boundary that returned a chunk: the trigger, the
\* state at the start of the loop iteration and the arguments of the call
CommitCall(at, entry, committed) ==
    IF committed.chunk = None THEN None
    ELSE [at |-> at, entry |-> entry, before |-> committed.before,
          boundary |-> committed.boundary]

BestBoundaryLatest(best, candidate) ==
    IF best = None THEN candidate
    ELSE IF candidate.score >= best.score THEN candidate ELSE best

\* best_boundary after a candidate is recorded: replaced only by a strictly
\* greater score
BestBoundary(best, candidate) ==
    IF best = None THEN candidate
    ELSE IF candidate.score > best.score THEN candidate ELSE best

\* the soft-trigger branch of _process_buffer: score position buffer_len - 1,
\* record it, and commit at best_boundary once the count is sustained
SoftTriggerStep(s, c) ==
    LET buffer_len == Len(s.buffer)
        candidate == ScoredCandidate(s, c, buffer_len - 1, buffer_len)
        recorded ==
            [s EXCEPT !.normalizers = NormalizerCount(s.normalizers,
                                                      c.commit_horizon_bytes),
                      !.candidates = RingAppend(s.candidates, candidate),
                      !.best_boundary = BestBoundary(s.best_boundary, candidate)]
        counted == [recorded EXCEPT !.soft_trigger_count = recorded.soft_trigger_count + 1]
        committed == _commit_at_boundary(counted, counted.best_boundary, c)
    IN IF candidate.score >= c.soft_trigger_threshold * ScoreScale(c)
       THEN IF counted.soft_trigger_count >= c.soft_trigger_sustain_steps
            THEN [state |-> committed.state, chunk |-> committed.chunk,
                  outcome |-> IF committed.chunk = None THEN "continue" ELSE "yield",
                  at |-> "soft", commit |-> CommitCall("soft", s, committed)]
            ELSE [state |-> counted, chunk |-> None, outcome |-> "break", at |-> "soft",
                  commit |-> None]
       ELSE [state |-> [recorded EXCEPT !.soft_trigger_count = 0], chunk |-> None,
             outcome |-> "break", at |-> "soft", commit |-> None]

\* one iteration of the `while True` loop of _process_buffer
ProcessIteration(s, c, is_final) ==
    LET buffer_len == Len(s.buffer)
        hard == _commit_chunk_at_best_boundary(s, c)
        last == _commit_remaining(s, c)
    IN IF buffer_len = 0
       THEN [state |-> s, chunk |-> None, outcome |-> "break", at |-> "empty",
             commit |-> None]
       ELSE IF buffer_len >= c.max_bytes
       THEN [state |-> hard.state, chunk |-> hard.chunk,
             outcome |-> IF hard.chunk = None THEN "continue" ELSE "yield",
             at |-> "hard", commit |-> CommitCall("hard", s, hard)]
       ELSE IF is_final
       THEN [state |-> last.state, chunk |-> last.chunk,
             outcome |-> IF last.chunk = None THEN "break" ELSE "yield",
             at |-> "final", commit |-> None]
       ELSE IF buffer_len >= c.min_bytes
       THEN SoftTriggerStep(s, c)
       ELSE [state |-> s, chunk |-> None, outcome |-> "break", at |-> "short",
             commit |-> None]

\* _process_buffer iterated to its end by the caller: the chunks it yields
\* and the state it leaves; returned is FALSE when the loop is still going
\* after MaxSustained sustained passes without a chunk
RECURSIVE RunLoop(_, _, _)
RunLoop(s, c, is_final) ==
    LET r == ProcessIteration(s, c, is_final)
        rest == RunLoop(r.state, c, is_final)
    IN IF s.soft_trigger_count >= MaxSustained
       THEN [state |-> s, chunks |-> << >>, returned |-> FALSE]
       ELSE IF r.outcome = "break"
       THEN [state |-> r.state, chunks |-> << >>, returned |-> TRUE]
       ELSE IF r.outcome = "yield" /\ r.at = "final"
       THEN [state |-> r.state, chunks |-> << r.chunk >>, returned |-> TRUE]
       ELSE [state |-> rest.state,
             chunks |-> (IF r.outcome = "yield" THEN << r.chunk >> ELSE << >>)
                        \o rest.chunks,
             returned |-> rest.returned]

\* feed(frag) on an unfinalized chunker in state s, consumed by the caller
FeedConsumed(s, frag, c) ==
    RunLoop([s EXCEPT !.buffer = s.buffer \o frag], c, FALSE)

\* a fresh session that feeds all the bytes as one fragment and finalizes
OneFragmentSession(bytes, c) ==
    LET fed_all == FeedConsumed(InitState, bytes, c)
        flushed == RunLoop(fed_all.state, c, TRUE)
    IN IF fed_all.returned
       THEN [chunks |-> fed_all.chunks \o flushed.chunks, returned |-> flushed.returned]
       ELSE [chunks |-> fed_all.chunks, returned |-> FALSE]

(***************************************************************************)
(* StreamingChunker.  feed() and finalize() are generator functions: a     *)
(* call only creates a generator object; their bodies run when the         *)
(* generator is iterated.  A generator is "created", "running" (control    *)
(* is inside its loop), "suspended" (at a yield), "done" or "raised".      *)
(***************************************************************************)
\* late: the call was made after a call of finalize() with no reset() between
Generator(kind, arg, late) ==
    [kind |-> kind, arg |-> arg, status |-> "created", at |-> "none", late |-> late]

Exhausted(g) == g.status \in {"done", "raised"}

AllExhausted == \A i \in 1..Len(gens) : Exhausted(gens[i])

NoneRunning == \A i \in 1..Len(gens) : gens[i].status # "running"

Live == {i \in 1..Len(gens) : ~Exhausted(gens[i])}

RECURSIVE SumArgs(_)
SumArgs(gs) == IF gs = << >> THEN 0 ELSE Len(Head(gs).arg) + SumArgs(Tail(gs))

\* chunker.feed(frag): returns a generator, runs nothing
CallFeed(frag) ==
    /\ NoneRunning
    /\ Len(gens) < MaxCalls
    /\ Cardinality(Live) < MaxLive
    /\ Len(fed) + SumArgs(gens) + Len(frag) <= MaxFed
    /\ gens' = Append(gens, Generator("feed", frag, finalize_called))
    /\ last_commit' = None
    /\ UNCHANGED <<config, state, finalized, fed, emitted, finalize_called>>
    /\ UNCHANGED <<offlineVars, extVars>>

\* chunker.finalize(): returns a generator, runs nothing
CallFinalize ==
    /\ NoneRunning
    /\ Len(gens) < MaxCalls
    /\ Cardinality(Live) < MaxLive
    /\ gens' = Append(gens, Generator("finalize", << >>, finalize_called))
    /\ finalize_called' = TRUE
    /\ last_commit' = None
    /\ UNCHANGED <<config, state, finalized, fed, emitted>>
    /\ UNCHANGED <<offlineVars, extVars>>

\* first next() on a generator: the code of feed()/finalize() before the loop;
\* the generator's argument is not used again
GenStart(g) ==
    /\ NoneRunning
    /\ gens[g].status = "created"
    /\ IF finalized
       THEN /\ gens' = [gens EXCEPT ![g].status = "raised", ![g].arg = << >>]
            /\ UNCHANGED <<state, finalized, fed>>
       ELSE /\ gens' = [gens EXCEPT ![g].status = "running", ![g].arg = << >>]
            /\ IF gens[g].kind = "feed"
               THEN /\ state' = [state EXCEPT !.buffer = state.buffer \o gens[g].arg]
                    /\ fed' = fed \o gens[g].arg
                    /\ UNCHANGED finalized
               ELSE /\ finalized' = TRUE
                    /\ UNCHANGED <<state, fed>>
    /\ last_commit' = None
    /\ UNCHANGED <<config, emitted, finalize_called>>
    /\ UNCHANGED <<offlineVars, extVars>>

\* a running generator executes one loop iteration of _process_buffer
ProcessBuffer(g) ==
    /\ gens[g].status = "running"
    /\ state.soft_trigger_count < MaxSustained
    /\ LET r == ProcessIteration(state, config, gens[g].kind = "finalize")
       IN /\ state' = r.state
          /\ emitted' = IF r.outcome = "yield" THEN Append(emitted, r.chunk) ELSE emitted
          /\ gens' = [gens EXCEPT
                        ![g].status = CASE r.outcome = "yield" -> "suspended"
                                        [] r.outcome = "continue" -> "running"
                                        [] OTHER -> "done",
                        ![g].at = IF r.outcome = "yield" THEN r.at ELSE "none"]
          /\ last_commit' = r.commit
    /\ UNCHANGED <<config, finalized, fed, finalize_called>>
    /\ UNCHANGED <<offlineVars, extVars>>

\* next() on a suspended generator: after the finalization chunk the loop
\* breaks, after any other chunk it continues
GenResume(g) ==
    /\ NoneRunning
    /\ gens[g].status = "suspended"
    /\ gens' = [gens EXCEPT ![g].status = IF gens[g].at = "final" THEN "done" ELSE "running",
                            ![g].at = "none"]
    /\ last_commit' = None
    /\ UNCHANGED <<config, state, finalized, fed, emitted, finalize_called>>
    /\ UNCHANGED <<offlineVars, extVars>>

\* chunker.reset(), called when every generator handed out has been exhausted
Reset ==
    /\ \A i \in 1..Len(gens) : Exhausted(gens[i])
    /\ state # InitState \/ finalized
    /\ state' = InitState
    /\ finalized' = FALSE
    /\ fed' = << >>
    /\ emitted' = << >>
    /\ finalize_called' = FALSE
    /\ last_commit' = None
    /\ UNCHANGED <<config, gens>>
    /\ UNCHANGED <<offlineVars, extVars>>

(***************************************************************************)
(* Hybrid chunking of a temporal document (scripts/run_hybrid_experiment.py). *)
(* SHA-256 is held as an injective function of the bytes hashed.           *)
(***************************************************************************)
sha256(bytes) == [sha256 |-> bytes]

HybridConfigs ==
    {[micro_chunk_bytes |-> m, micro_overlap_bytes |-> o, guard_band_bytes |-> g] :
        m \in {MaxMicroBytes}, o \in 0..(MaxMicroBytes - 1), g \in 0..MaxGuardBand}

\* uuid.uuid4() values
EditWindowIds == {"id1", "id2"}

ChunkDict(index, bs, be, content, score, micro, parent, window_id) ==
    [chunk_index |-> index, byte_offset_start |-> bs, byte_offset_end |-> be,
     content |-> content, content_sha256 |-> sha256(content), cut_score |-> score,
     is_micro_chunk |-> micro, parent_chunk_id |-> parent, edit_window_id |-> window_id]

\* stability_chunk: the chunks of chunk_offline as dicts
stability_chunk(cs) ==
    [i \in 1..Len(cs) |->
        ChunkDict(i - 1, cs[i].byte_start, cs[i].byte_end, cs[i].content,
                  cs[i].cut_score, FALSE, None, None)]

\* the while loop of micro_chunk from `offset` on
RECURSIVE MicroLoop(_, _, _, _, _, _, _)
MicroLoop(window_data, start, h, parent, window_id, offset, idx) ==
    LET step == h.micro_chunk_bytes - h.micro_overlap_bytes
        chunk_end == Min(offset + h.micro_chunk_bytes, Len(window_data))
        this == ChunkDict(idx, start + offset, start + chunk_end,
                          PySlice(window_data, offset, chunk_end), 0, TRUE,
                          parent, window_id)
    IN IF ~(offset < Len(window_data)) THEN << >>
       ELSE IF offset + step >= Len(window_data) /\ chunk_end = Len(window_data)
       THEN << this >>
       ELSE << this >> \o MicroLoop(window_data, start, h, parent, window_id,
                                    offset + step, idx + 1)

micro_chunk(d, start, end, h, parent, window_id) ==
    MicroLoop(PySlice(d, start, end), start, h, parent, window_id, 0, 0)

\* list.sort(key=byte_offset_start): a stable sort
RECURSIVE SortByStart(_)
SortByStart(seq) ==
    IF seq = << >> THEN << >>
    ELSE LET first == CHOOSE i \in 1..Len(seq) :
                          \A j \in 1..Len(seq) :
                              /\ seq[i].byte_offset_start <= seq[j].byte_offset_start
                              /\ (j < i => seq[j].byte_offset_start > seq[i].byte_offset_start)
             rest == [k \in 1..(Len(seq) - 1) |-> IF k < first THEN seq[k] ELSE seq[k + 1]]
         IN << seq[first] >> \o SortByStart(rest)

Overlaps(chunk, w) ==
    ~(chunk.byte_offset_end <= w.guarded_start \/ chunk.byte_offset_start >= w.guarded_end)

\* hybrid_chunk with a previous partition and an edit window
hybrid_chunk(d, prev, w, h, window_id) ==
    LET overlaps(ch) == Overlaps(ch, w)
        affected == SelectSeq(prev, overlaps)
        micro_chunk_parent ==
            IF affected = << >> THEN "unknown" ELSE affected[1].content_sha256
        keepable(ch) == ~Overlaps(ch, w) /\ ch.byte_offset_end <= Len(d)
        kept == SelectSeq(prev, keepable)
        base == [i \in 1..Len(kept) |->
                    ChunkDict(i - 1, kept[i].byte_offset_start, kept[i].byte_offset_end,
                              PySlice(d, kept[i].byte_offset_start, kept[i].byte_offset_end),
                              kept[i].cut_score, FALSE, None, None)]
        micro == IF w.guarded_end <= Len(d)
                 THEN micro_chunk(d, w.guarded_start, Min(w.guarded_end, Len(d)), h,
                                  micro_chunk_parent, window_id)
                 ELSE << >>
        sorted == SortByStart(base \o micro)
    IN [i \in 1..Len(sorted) |-> [sorted[i] EXCEPT !.chunk_index = i - 1]]

\* the guard band applied by generate_temporal_corpus
EditWindow(edit_start, edit_end, new_content, g) ==
    [edit_start |-> edit_start, edit_end |-> edit_end,
     guarded_start |-> Max(0, edit_start - g),
     guarded_end |-> Min(Len(new_content), edit_end + g)]

NewestVersion == versions[Len(versions)]

\* a version is generated once the versions before it have been chunked
\* (corpus generation does not read the chunks)
CanUpdate ==
    /\ Len(versions) < MaxVersions
    /\ version_t = Len(versions)

AddVersion(new_content, edit_start, edit_end) ==
    /\ versions' = Append(versions, new_content)
    /\ edit_windows' = Append(edit_windows,
                              EditWindow(edit_start, edit_end, new_content,
                                         hybrid.guard_band_bytes))
    /\ UNCHANGED <<hybrid, version_t, prev_chunks, hybrid_call>>
    /\ UNCHANGED <<config, offlineVars, streamVars, manifestVars, maxima_call, micro_call>>

\* generate_append_update: bytes are added at the end
generate_append_update ==
    /\ CanUpdate
    /\ \E added \in SeqsUpTo(Bytes, MaxEditLen) \ {<< >>} :
          AddVersion(NewestVersion \o added, Len(NewestVersion),
                     Len(NewestVersion) + Len(added))

\* generate_local_edit: edit_len bytes at pos are replaced by a replacement
\* that may be shorter or longer
generate_local_edit ==
    /\ CanUpdate
    /\ \E pos \in 0..Len(NewestVersion), edit_len \in 1..MaxEditLen,
          replacement \in SeqsUpTo({97}, MaxEditLen) \ {<< >>} :
          /\ pos + edit_len <= Len(NewestVersion)
          /\ AddVersion(PySlice(NewestVersion, 0, pos) \o replacement
                        \o PySlice(NewestVersion, pos + edit_len, Len(NewestVersion)),
                     pos, pos + Len(replacement))

\* generate_boundary_stress: the bytes of [edit_start, edit_end) are replaced
\* by a non-empty marker
generate_boundary_stress ==
    /\ CanUpdate
    /\ \E edit_start \in 0..Max(0, Len(NewestVersion) - 1), span \in 1..MaxEditLen,
          replacement \in SeqsUpTo({97}, MaxEditLen) \ {<< >>} :
          LET edit_end == Min(Len(NewestVersion), edit_start + span)
          IN AddVersion(PySlice(NewestVersion, 0, edit_start) \o replacement
                           \o PySlice(NewestVersion, edit_end, Len(NewestVersion)),
                        edit_start, edit_start + Len(replacement))

\* the driver loop at t = 0: hybrid_chunk without a previous partition is
\* stability_chunk, which is chunk_offline
HybridChunkFirst ==
    /\ version_t = 0
    /\ pc = "done"
    /\ version_t' = 1
    /\ prev_chunks' = stability_chunk(chunks)
    /\ UNCHANGED <<hybrid, versions, edit_windows, hybrid_call>>
    /\ UNCHANGED <<config, offlineVars, streamVars, manifestVars, maxima_call, micro_call>>

\* the driver loop at t >= 1
HybridChunkNext ==
    /\ version_t >= 1
    /\ version_t < Len(versions)
    /\ \E window_id \in EditWindowIds :
          LET d == versions[version_t + 1]
              w == edit_windows[version_t + 1]
              result == hybrid_chunk(d, prev_chunks, w, hybrid, window_id)
          IN /\ hybrid_call' = [data |-> d, old |-> versions[version_t],
                                prev_chunks |-> prev_chunks, edit_window |-> w,
                                result |-> result]
             /\ prev_chunks' = result
    /\ version_t' = version_t + 1
    /\ UNCHANGED <<hybrid, versions, edit_windows>>
    /\ UNCHANGED <<config, offlineVars, streamVars, manifestVars, maxima_call, micro_call>>

(***************************************************************************)
(* Chunk manifests (src/chunking/manifests.py).  json.dumps with sorted    *)
(* keys is held as the sequence of the (key, value) pairs in key order;    *)
(* the configuration fields of the model are those of BaseConfig.          *)
(***************************************************************************)
_signals_to_dict(signals) ==
    [K |-> signals.K, S |-> signals.S, D |-> signals.D, B |-> signals.B,
     L |-> signals.L]

_normalized_signals_to_dict(norm) ==
    [K_norm |-> norm.K_norm, S_norm |-> norm.S_norm, D_norm |-> norm.D_norm,
     B |-> norm.B, L |-> norm.L]

_compute_sha256(bytes) == sha256(bytes)

_chunking_config_to_dict(c) ==
    [min_bytes |-> c.min_bytes, max_bytes |-> c.max_bytes,
     overlap_bytes |-> c.overlap_bytes,
     commit_horizon_bytes |-> c.commit_horizon_bytes,
     L_target_bytes |-> c.L_target_bytes, wB |-> c.wB, wL |-> c.wL,
     use_lil_boundaries |-> c.use_lil_boundaries,
     use_curvature |-> c.use_curvature, use_disharmony |-> c.use_disharmony,
     use_stability_margin |-> c.use_stability_margin,
     soft_trigger_threshold |-> c.soft_trigger_threshold,
     soft_trigger_sustain_steps |-> c.soft_trigger_sustain_steps]

\* the keys of the config dict in the order sort_keys=True writes them
SortedConfigKeys ==
    << "L_target_bytes", "commit_horizon_bytes", "max_bytes", "min_bytes",
       "overlap_bytes", "soft_trigger_sustain_steps", "soft_trigger_threshold",
       "use_curvature", "use_disharmony", "use_lil_boundaries",
       "use_stability_margin", "wB", "wL" >>

_compute_config_hash(config_dict) ==
    [sha256_16 |-> [i \in 1..Len(SortedConfigKeys) |->
                       << SortedConfigKeys[i], config_dict[SortedConfigKeys[i]] >>]]

RECURSIVE JoinContents(_)
JoinContents(cs) ==
    IF cs = << >> THEN << >> ELSE Head(cs).content \o JoinContents(Tail(cs))

ChunkMetadataOneBased(i, chunk) ==
    [index |-> i, byte_start |-> chunk.byte_start, byte_end |-> chunk.byte_end,
     byte_length |-> Len(chunk.content),
     content_sha256 |-> _compute_sha256(chunk.content),
     cut_score |-> chunk.cut_score, signals |-> _signals_to_dict(chunk.signals),
     normalized_signals |-> _normalized_signals_to_dict(chunk.normalized_signals)]

\* the metadata of the i-th chunk of the list (i counts from 1 here)
ChunkMetadata(i, chunk) ==
    [index |-> i - 1, byte_start |-> chunk.byte_start, byte_end |-> chunk.byte_end,
     byte_length |-> Len(chunk.content),
     content_sha256 |-> _compute_sha256(chunk.content),
     cut_score |-> chunk.cut_score, signals |-> _signals_to_dict(chunk.signals),
     normalized_signals |-> _normalized_signals_to_dict(chunk.normalized_signals)]

\* an Optional[bytes] argument that is not None
Given(bytes) == [bytes |-> bytes]

generate_manifest(cs, doc_id, c, original_content, now) ==
    LET config_dict == _chunking_config_to_dict(c)
        all_content == JoinContents(cs)
    IN [doc_id |-> doc_id,
        doc_content_sha256 |-> IF original_content # None
                               THEN _compute_sha256(original_content.bytes)
                               ELSE _compute_sha256(all_content),
        total_bytes |-> IF original_content # None
                        THEN Len(original_content.bytes) ELSE Len(all_content),
        chunk_count |-> Len(cs),
        chunks |-> [i \in 1..Len(cs) |-> ChunkMetadata(i, cs[i])],
        config_hash |-> _compute_config_hash(config_dict),
        config |-> config_dict,
        created_at |-> now,
        version |-> "1.0.0"]

RequiredFields ==
    {"doc_id", "doc_content_sha256", "total_bytes", "chunk_count", "chunks",
     "config_hash", "config", "created_at", "version"}

RequiredChunkFields ==
    {"index", "byte_start", "byte_end", "byte_length", "content_sha256",
     "cut_score", "signals", "normalized_signals"}

\* the errors validate_manifest finds in one entry of manifest["chunks"]
\* (i counts from 1 here)
ChunkErrors(i, chunk) ==
    {<< "missing", i - 1, f >> : f \in RequiredChunkFields \ DOMAIN chunk}
    \cup (IF /\ {"byte_start", "byte_end", "byte_length"} \subseteq DOMAIN chunk
             /\ chunk.byte_length # chunk.byte_end - chunk.byte_start
          THEN {<< "byte_length", i - 1 >>} ELSE {})
    \cup (IF "index" \in DOMAIN chunk /\ chunk.index # i - 1
          THEN {<< "index", i - 1 >>} ELSE {})

\* (is_valid, errors); the errors are held as a set
validate_manifest(manifest) ==
    LET missing == {<< "missing", f >> : f \in RequiredFields \ DOMAIN manifest}
        errors ==
            (IF Len(manifest.chunks) # manifest.chunk_count
             THEN {<< "chunk_count" >>} ELSE {})
            \cup UNION {ChunkErrors(i, manifest.chunks[i]) : i \in 1..Len(manifest.chunks)}
            \cup (IF manifest.config_hash # _compute_config_hash(manifest.config)
                  THEN {<< "config_hash" >>} ELSE {})
    IN IF missing # {}
       THEN [is_valid |-> FALSE, errors |-> missing]
       ELSE [is_valid |-> errors = {}, errors |-> errors]

\* generate_manifest(cs, "doc", config, original_content) called at some
\* time not before the last call
GenerateManifest(cs, original_content) ==
    /\ Len(manifests) < MaxManifests
    /\ \E now \in clock..MaxClock :
          /\ clock' = now
          /\ manifests' = Append(manifests,
                [chunks |-> cs, original_content |-> original_content,
                 manifest |-> generate_manifest(cs, "doc", config,
                                                original_content, now)])
    /\ UNCHANGED <<config, offlineVars, streamVars, hybridVars, maxima_call, micro_call>>

\* a manifest of the chunks chunk_offline returned
ManifestOfOffline ==
    /\ pc = "done"
    /\ gens = << >>
    /\ (GenerateManifest(chunks, Given(data)) \/ GenerateManifest(chunks, None))

\* a manifest of the chunks the streaming chunker has emitted
ManifestOfStream ==
    /\ data = << >>
    /\ AllExhausted
    /\ emitted # << >>
    /\ (GenerateManifest(emitted, Given(fed)) \/ GenerateManifest(emitted, None))

(***************************************************************************)
(* Specifications.                                                         *)
(***************************************************************************)
InitOfflineVars ==
    /\ pc = "start"
    /\ current_start = 0
    /\ chunks = << >>

InitStreamVars ==
    /\ state = InitState
    /\ finalized = FALSE
    /\ gens = << >>
    /\ fed = << >>
    /\ emitted = << >>
    /\ finalize_called = FALSE
    /\ last_commit = None

\* no temporal document
InitHybridVars ==
    /\ hybrid \in {h \in HybridConfigs :
                       h.micro_overlap_bytes = 0 /\ h.guard_band_bytes = 0}
    /\ versions = << >>
    /\ edit_windows = << >>
    /\ version_t = 0
    /\ prev_chunks = None
    /\ hybrid_call = None

InitManifestVars ==
    /\ clock = 0
    /\ manifests = << >>

InitExtVars ==
    /\ InitHybridVars
    /\ InitManifestVars
    /\ maxima_call = None
    /\ micro_call = None

\* chunk_offline on every document up to MaxLen under every valid configuration
InitOffline ==
    /\ config \in OfflineConfigs
    /\ data \in SeqsUpTo(Bytes, MaxLen)
    /\ InitOfflineVars
    /\ InitStreamVars
    /\ InitExtVars

NextOffline == OfflineCall \/ GreedyIteration

SpecOffline == InitOffline /\ [][NextOffline]_vars

\* one StreamingChunker under every valid configuration
Init ==
    /\ config \in StreamConfigs
    /\ data = << >>
    /\ InitOfflineVars
    /\ InitStreamVars
    /\ InitExtVars

\* the caller iterates every generator to exhaustion before the next call
SequentialFeed(frag) == AllExhausted /\ CallFeed(frag)

SequentialFinalize == AllExhausted /\ CallFinalize

Next ==
    \/ \E frag \in SeqsUpTo(Bytes, MaxFragLen) : SequentialFeed(frag)
    \/ SequentialFinalize
    \/ \E g \in 1..Len(gens) : GenStart(g)
    \/ \E g \in 1..Len(gens) : ProcessBuffer(g)
    \/ \E g \in 1..Len(gens) : GenResume(g)
    \/ Reset

Spec == Init /\ [][Next]_vars

\* the same with, besides, the configurations of min_bytes 1 whose window
\* [min_bytes, max_bytes] is wide enough for the ring to hold several
\* candidates of the window when a trigger fires; with L_target_bytes =
\* max_bytes the length term is 0 and boundaries score alike
WideConfigs ==
    {[BaseConfig EXCEPT !.min_bytes = 1, !.max_bytes = MaxMaxBytes + 1,
                        !.overlap_bytes = ov, !.soft_trigger_sustain_steps = st,
                        !.L_target_bytes = lt] :
        ov \in 0..1, st \in 1..2, lt \in {BaseConfig.L_target_bytes, MaxMaxBytes + 1}}

InitWide ==
    /\ config \in StreamConfigs \cup WideConfigs
    /\ data = << >>
    /\ InitOfflineVars
    /\ InitStreamVars
    /\ InitExtVars

SpecWide == InitWide /\ [][Next]_vars

\* the caller may leave generators unstarted or half iterated
NextLazy ==
    \/ \E frag \in SeqsUpTo(Bytes, MaxFragLen) : CallFeed(frag)
    \/ CallFinalize
    \/ \E g \in 1..Len(gens) : GenStart(g)
    \/ \E g \in 1..Len(gens) : ProcessBuffer(g)
    \/ \E g \in 1..Len(gens) : GenResume(g)
    \/ Reset

SpecLazy == Init /\ [][NextLazy]_vars


\* chunk_offline and the streaming chunker of one configuration.  The two
\* share no state, so the streaming chunker is driven only in the runs in
\* which chunk_offline has returned on the empty document.
StreamingUse == data = << >> /\ pc = "done" /\ Next

NextBoth == OfflineCall \/ GreedyIteration \/ StreamingUse

InitBoth ==
    /\ config \in StreamConfigs
    /\ data \in SeqsUpTo(Bytes, MaxLen)
    /\ InitOfflineVars
    /\ InitStreamVars
    /\ InitExtVars

SpecBoth == InitBoth /\ [][NextBoth]_vars

\* the same under configurations that are not valid
InitInvalid ==
    /\ config \in InvalidConfigs
    /\ data \in SeqsUpTo(Bytes, MaxLen)
    /\ InitOfflineVars
    /\ InitStreamVars
    /\ InitExtVars

SpecInvalid == InitInvalid /\ [][NextBoth]_vars

\* _find_local_maxima as a function of its arguments: the scores of the
\* positions 0..n-1, as the first pass of chunk_offline lists them, and
\* min_distance
ScoreLists ==
    UNION {[1..n -> 0..MaxScore] : n \in 0..MaxScores}

ScoreEntries(values) ==
    [i \in 1..Len(values) |->
        [pos |-> i - 1, score |-> values[i],
         signals |-> ZeroSignals(i - 1), norm |-> ZeroNorm(i - 1)]]

InitMaxima ==
    /\ config = BaseConfig
    /\ data = << >>
    /\ InitOfflineVars
    /\ InitStreamVars
    /\ InitHybridVars
    /\ InitManifestVars
    /\ \E values \in ScoreLists, min_distance \in 0..MaxMinDistance :
          maxima_call = [scores |-> ScoreEntries(values),
                         min_distance |-> min_distance, returned |-> None]
    /\ micro_call = None

FindLocalMaxima ==
    /\ maxima_call # None
    /\ maxima_call.returned = None
    /\ maxima_call' =
          [maxima_call EXCEPT !.returned =
              [maxima |-> _find_local_maxima(maxima_call.scores,
                                             maxima_call.min_distance)]]
    /\ UNCHANGED <<config, offlineVars, streamVars, hybridVars, manifestVars, micro_call>>

SpecMaxima == InitMaxima /\ [][FindLocalMaxima]_vars

\* chunk_offline under the valid configurations and under configurations
\* whose min_bytes // 4 is at least 1, where neighbouring candidates
\* suppress each other, together with the direct calls of _find_local_maxima
LocalMaximaConfigs ==
    OfflineConfigs \cup
    {[BaseConfig EXCEPT !.min_bytes = MaxLen - 2, !.max_bytes = MaxLen - 1,
                        !.overlap_bytes = ov, !.L_target_bytes = lt] :
        ov \in 0..1, lt \in {BaseConfig.L_target_bytes, MaxLen}}

InitLocalMaxima ==
    \/ /\ config \in LocalMaximaConfigs
       /\ data \in SeqsUpTo(Bytes, MaxLen)
       /\ InitOfflineVars
       /\ InitStreamVars
       /\ InitExtVars
    \/ InitMaxima

NextLocalMaxima == NextOffline \/ FindLocalMaxima

SpecLocalMaxima == InitLocalMaxima /\ [][NextLocalMaxima]_vars

\* micro_chunk as a function of its arguments: a buffer, a region
\* [start, end) of it and a HybridConfig with micro_overlap_bytes <
\* micro_chunk_bytes
MicroConfigs ==
    {h \in [micro_chunk_bytes : 1..(MaxMicroBytes + 1),
            micro_overlap_bytes : 0..MaxMicroBytes, guard_band_bytes : {0}] :
        h.micro_overlap_bytes < h.micro_chunk_bytes}

InitMicro ==
    /\ config = BaseConfig
    /\ data \in SeqsUpTo(Bytes, MaxDocLen)
    /\ InitOfflineVars
    /\ InitStreamVars
    /\ InitHybridVars
    /\ InitManifestVars
    /\ maxima_call = None
    /\ \E h \in MicroConfigs, start \in 0..Len(data) :
          \E end \in start..Len(data) :
              micro_call = [config |-> h, start |-> start, end |-> end,
                            returned |-> None]

MicroChunk ==
    /\ micro_call # None
    /\ micro_call.returned = None
    /\ micro_call' =
          [micro_call EXCEPT !.returned =
              [chunks |-> micro_chunk(data, micro_call.start, micro_call.end,
                                      micro_call.config, "parent", "id1")]]
    /\ UNCHANGED <<config, offlineVars, streamVars, hybridVars, manifestVars,
                   maxima_call>>

SpecMicro == InitMicro /\ [][MicroChunk]_vars

\* manifests of the chunks of chunk_offline and of the streaming chunker;
\* the manifests are generated when chunking is over
NextManifest ==
    \/ manifests = << >> /\ NextBoth
    \/ ManifestOfOffline
    \/ ManifestOfStream

SpecManifest == InitBoth /\ [][NextManifest]_vars

\* the hybrid policy over the versions of one temporal document
InitHybrid ==
    /\ config \in OfflineConfigs
    /\ data \in SeqsUpTo(Bytes, MaxDocLen)
    /\ hybrid \in HybridConfigs
    /\ versions = << data >>
    /\ edit_windows = << None >>
    /\ version_t = 0
    /\ prev_chunks = None
    /\ hybrid_call = None
    /\ InitOfflineVars
    /\ InitStreamVars
    /\ InitManifestVars
    /\ maxima_call = None
    /\ micro_call = None

NextHybrid ==
    \/ OfflineCall
    \/ GreedyIteration
    \/ HybridChunkFirst
    \/ generate_append_update
    \/ generate_local_edit
    \/ generate_boundary_stress
    \/ HybridChunkNext

SpecHybrid == InitHybrid /\ [][NextHybrid]_vars

(***************************************************************************)
(* Properties.                                                             *)
(***************************************************************************)
ChunkLength(ch) == ch.byte_end - ch.byte_start

\* the bytes of input at [byte_start, byte_end)
OwnsInputRange(ch, input) ==
    /\ 0 <= ch.byte_start
    /\ ch.byte_start <= ch.byte_end
    /\ ch.byte_end <= Len(input)
    /\ ch.content = SubSeq(input, ch.byte_start + 1, ch.byte_end)
    /\ Len(ch.content) = ChunkLength(ch)

\* a chunk sequence leaves no byte of [0, n) out and ends at n
CoversWithoutGap(cs, n) ==
    IF cs = << >> THEN n = 0
    ELSE /\ cs[1].byte_start = 0
         /\ \A i \in 2..Len(cs) : cs[i].byte_start <= cs[i - 1].byte_end
         /\ cs[Len(cs)].byte_end = n

\* C1: for a non-empty document of length N, the chunks chunk_offline returns
\* each satisfy 0 <= byte_start < byte_end <= N, the first starts at 0, the
\* last ends at N, no byte of [0, N) is left out, and with overlap_bytes = 0
\* consecutive chunks are contiguous.
C1_OfflineCoverage ==
    (pc = "done" /\ Len(data) > 0) =>
        /\ chunks # << >>
        /\ \A i \in 1..Len(chunks) :
              /\ 0 <= chunks[i].byte_start
              /\ chunks[i].byte_start < chunks[i].byte_end
              /\ chunks[i].byte_end <= Len(data)
        /\ CoversWithoutGap(chunks, Len(data))
        /\ config.overlap_bytes = 0 =>
              \A i \in 2..Len(chunks) : chunks[i].byte_start = chunks[i - 1].byte_end

C1_Witness ==
    /\ pc = "done"
    /\ Len(data) = MaxLen
    /\ Len(chunks) >= 3
    /\ config.overlap_bytes > 0
    /\ \E i \in 2..Len(chunks) : chunks[i].byte_start < chunks[i - 1].byte_end

\* C2: once the fragments fed have been consumed and finalize() has been
\* consumed, the emitted chunks cover [0, N) without a gap, N the number of
\* bytes fed: the first starts at 0, each later one starts at or before the
\* end of the one before, the last ends at N.
C2_StreamCoverage ==
    (finalized /\ AllExhausted) => CoversWithoutGap(emitted, Len(fed))

C2_Witness ==
    /\ finalized
    /\ AllExhausted
    /\ Len(emitted) >= 3
    /\ Len(fed) = MaxFed
    /\ \E i \in 2..Len(emitted) : emitted[i].byte_start < emitted[i - 1].byte_end
    /\ \E i \in 2..Len(emitted) : emitted[i].byte_start = emitted[i - 1].byte_end

\* C3: the greedy loop of chunk_offline never moves current_start to or
\* before the start of a chunk already emitted: byte_start is never negative
\* and strictly increases along the chunks.
C3_OfflineStartIncreases ==
    /\ \A i \in 1..Len(chunks) : chunks[i].byte_start >= 0
    /\ \A i \in 2..Len(chunks) : chunks[i].byte_start > chunks[i - 1].byte_start
    /\ (pc = "loop" /\ chunks # << >>) => current_start > chunks[Len(chunks)].byte_start

\* C4: in one streaming session every emitted chunk starts after every
\* chunk emitted before it.
C4_StreamStartIncreases ==
    \A i \in 2..Len(emitted) : emitted[i].byte_start > emitted[i - 1].byte_start

C4_Witness ==
    /\ finalized
    /\ AllExhausted
    /\ Len(emitted) >= 3
    /\ config.overlap_bytes >= config.min_bytes
    /\ \E i \in 2..Len(emitted) : emitted[i].byte_start = emitted[i - 1].byte_start + 1

\* C5: every chunk of chunk_offline but the last is between min_bytes and
\* max_bytes long, and the last is at most max_bytes long.
C5_OfflineLengthBounds ==
    \A i \in 1..Len(chunks) :
        /\ (i < Len(chunks) \/ pc = "loop") =>
              /\ ChunkLength(chunks[i]) >= config.min_bytes
              /\ ChunkLength(chunks[i]) <= config.max_bytes
        /\ ChunkLength(chunks[i]) <= config.max_bytes

C5_Witness ==
    /\ pc = "done"
    /\ Len(chunks) >= 3
    /\ ChunkLength(chunks[1]) = config.min_bytes
    /\ ChunkLength(chunks[2]) = config.max_bytes
    /\ ChunkLength(chunks[Len(chunks)]) < config.min_bytes

\* C6: every chunk a hard or a soft trigger emits (every chunk but the
\* finalization chunk) is between min_bytes and max_bytes long.
C6_StreamLengthBounds ==
    \A g \in 1..Len(gens) :
        (gens[g].status = "suspended" /\ gens[g].at \in {"hard", "soft"}) =>
            /\ ChunkLength(emitted[Len(emitted)]) >= config.min_bytes
            /\ ChunkLength(emitted[Len(emitted)]) <= config.max_bytes

\* C7: the content of every chunk chunk_offline returns and of every chunk
\* the streaming chunker emits is the bytes of the input at
\* [byte_start, byte_end), so it is byte_end - byte_start long.
C7_ContentIntegrity ==
    /\ pc = "done" => \A i \in 1..Len(chunks) : OwnsInputRange(chunks[i], data)
    /\ \A i \in 1..Len(emitted) : OwnsInputRange(emitted[i], fed)

C7_Witness ==
    /\ finalized
    /\ AllExhausted
    /\ Len(emitted) >= 3
    /\ config.overlap_bytes > 0
    /\ emitted[2].content # emitted[1].content
    /\ emitted[Len(emitted)].byte_end = MaxFed

\* C8: a call of feed() or finalize() made after finalize() was called (with
\* no reset() since) is reported as an error at the call: the call hands out
\* no generator that has yet to raise.
C8_LateCallRaisesAtCall ==
    \A g \in 1..Len(gens) : gens[g].late => gens[g].status = "raised"

\* C9: an invalid configuration (min_bytes <= 0, max_bytes <= min_bytes,
\* overlap_bytes >= max_bytes or a negative weight) is rejected before
\* chunk_offline or the streaming chunker produces a chunk.
C9_InvalidConfigRejected ==
    ~ValidConfig(config) => (chunks = << >> /\ emitted = << >>)

\* C10 as stated: for every document of length N <= min_bytes, chunk_offline
\* returns exactly one chunk, [0, N), with cut_score 0, K = S = D = B = 0 and
\* L = N.
C10_ShortInputOneChunk ==
    (pc = "done" /\ Len(data) <= config.min_bytes) =>
        chunks = << Chunk(0, Len(data), data, 0, ZeroSignals(Len(data)),
                          ZeroNorm(Len(data))) >>

\* C10 amended: the same for every non-empty document of length N <= min_bytes.
C10_NonEmptyShortInputOneChunk ==
    (pc = "done" /\ Len(data) >= 1 /\ Len(data) <= config.min_bytes) =>
        /\ Len(chunks) = 1
        /\ chunks[1].byte_start = 0
        /\ chunks[1].byte_end = Len(data)
        /\ chunks[1].content = data
        /\ chunks[1].cut_score = 0
        /\ chunks[1].signals = [K |-> 0, S |-> 0, D |-> 0, B |-> 0, L |-> Len(data)]

C10_Witness ==
    /\ pc = "done"
    /\ Len(data) = config.min_bytes
    /\ Len(data) = MaxMinBytes
    /\ Len(chunks) = 1
    /\ data[Len(data)] = NEWLINE

\* the byte offsets of [0, n) all lie in a chunk dict of cs
CoversEveryByte(cs, n) ==
    \A b \in 0..(n - 1) :
        \E i \in 1..Len(cs) :
            cs[i].byte_offset_start <= b /\ b < cs[i].byte_offset_end

DisjointFromGuarded(ch, w) ==
    ch.byte_offset_end <= w.guarded_start \/ ch.byte_offset_start >= w.guarded_end

\* C11: every chunk hybrid_chunk returns whose range is disjoint from the
\* guarded window has the byte_start, the byte_end and the content hash of a
\* chunk of the previous partition.
C11_HybridLocality ==
    hybrid_call # None =>
        \A i \in 1..Len(hybrid_call.result) :
            LET ch == hybrid_call.result[i]
            IN DisjointFromGuarded(ch, hybrid_call.edit_window) =>
                  \E j \in 1..Len(hybrid_call.prev_chunks) :
                      LET p == hybrid_call.prev_chunks[j]
                      IN /\ p.byte_offset_start = ch.byte_offset_start
                         /\ p.byte_offset_end = ch.byte_offset_end
                         /\ p.content_sha256 = ch.content_sha256

\* C12: when the previous partition covers [0, N) and the new buffer is N
\* bytes long, the chunks hybrid_chunk returns cover every byte of [0, N).
C12_HybridCoverage ==
    (/\ hybrid_call # None
     /\ Len(hybrid_call.data) = Len(hybrid_call.old)
     /\ CoversEveryByte(hybrid_call.prev_chunks, Len(hybrid_call.old))
     /\ hybrid_call.edit_window.edit_end <= Len(hybrid_call.data))
        => CoversEveryByte(hybrid_call.result, Len(hybrid_call.data))

\* C13: for every chunk sequence produced by chunk_offline or by the
\* streaming chunker, validate_manifest reports the generated manifest valid:
\* every required field is present, chunk_count is the number of entries,
\* every entry's index is its list position, every byte_length is
\* byte_end - byte_start, and config_hash is the hash recomputed from the
\* recorded config.
C13_ManifestRoundTrip ==
    \A k \in 1..Len(manifests) :
        LET m == manifests[k].manifest
        IN /\ validate_manifest(m).is_valid
           /\ RequiredFields \subseteq DOMAIN m
           /\ m.chunk_count = Len(m.chunks)
           /\ Len(m.chunks) = Len(manifests[k].chunks)
           /\ \A i \in 1..Len(m.chunks) :
                 /\ RequiredChunkFields \subseteq DOMAIN m.chunks[i]
                 /\ m.chunks[i].index = i - 1
                 /\ m.chunks[i].byte_length
                       = m.chunks[i].byte_end - m.chunks[i].byte_start
           /\ m.config_hash = _compute_config_hash(m.config)

\* the manifest of a streamed list of several chunks, cut with overlap, has
\* been generated and validated
C13_Witness ==
    \E k \in 1..Len(manifests) :
        /\ manifests[k].manifest.chunk_count >= 2
        /\ validate_manifest(manifests[k].manifest).is_valid
        /\ manifests[k].chunks = emitted /\ emitted # << >>
        /\ config.overlap_bytes > 0

\* C14: two runs of manifest generation over the same chunks, the same
\* content and the same configuration give manifests equal in every field,
\* whenever the two runs are executed.
C14_ManifestDeterminism ==
    \A j, k \in 1..Len(manifests) :
        (/\ manifests[j].chunks = manifests[k].chunks
         /\ manifests[j].original_content = manifests[k].original_content)
        => manifests[j].manifest = manifests[k].manifest

\* the overlap relation between a chunk and its successor
OverlapRelation(ci, cj, o) ==
    cj.byte_start = IF ci.byte_end - o <= ci.byte_start
                    THEN ci.byte_end ELSE ci.byte_end - o

\* C15: with overlap_bytes = o > 0, every consecutive pair of chunks of
\* chunk_offline and of the streaming chunker satisfies
\* c_{i+1}.byte_start = c_i.byte_end - o, or c_{i+1}.byte_start = c_i.byte_end
\* when c_i.byte_end - o <= c_i.byte_start.
C15_OverlapRelation ==
    config.overlap_bytes > 0 =>
        /\ \A i \in 1..(Len(chunks) - 1) :
              OverlapRelation(chunks[i], chunks[i + 1], config.overlap_bytes)
        /\ \A i \in 1..(Len(emitted) - 1) :
              OverlapRelation(emitted[i], emitted[i + 1], config.overlap_bytes)

\* C16: chunk_offline terminates on every input under every configuration
\* with min_bytes >= 1, max_bytes > min_bytes and 0 <= overlap_bytes <
\* max_bytes: every iteration of the greedy loop that does not emit the final
\* chunk strictly increases current_start, which len(data) bounds.
C16_OfflineTerminates ==
    [][(pc = "loop" /\ pc' = "loop")
          => (current_start' > current_start /\ current_start' <= Len(data))]_vars

\* C17: under every configuration with min_bytes >= 1, max_bytes > min_bytes
\* and soft_trigger_sustain_steps >= 1 the decision loop of feed and finalize
\* terminates: an iteration after which the loop goes on has emitted a chunk
\* and removed at least one byte of the buffer, so no commit attempt returns
\* without a chunk while the loop continues.
C17_StreamLoopTerminates ==
    [][\A g \in 1..Len(gens) :
          (/\ gens[g].status = "running"
           /\ gens'[g].status \in {"running", "suspended"})
          => /\ Len(emitted') = Len(emitted) + 1
             /\ Len(state'.buffer) < Len(state.buffer)]_vars

\* C18: a candidate is a local maximum iff no other candidate within
\* min_distance has a strictly greater score and none within min_distance
\* has the same score at an earlier position: of equal-scored candidates
\* within min_distance of each other only the earliest qualifies.
C18_EarliestOfEqualQualifies ==
    (maxima_call # None /\ maxima_call.returned # None) =>
        LET scores == maxima_call.scores
            qualifies(e) ==
                \A j \in 1..Len(scores) :
                    LET o == scores[j]
                    IN (o.pos # e.pos
                        /\ Abs(e.pos - o.pos) <= maxima_call.min_distance)
                       => /\ ~(o.score > e.score)
                          /\ ~(o.score = e.score /\ o.pos < e.pos)
        IN maxima_call.returned.maxima = SelectSeq(scores, qualifies)

\* C19: a commit of the decision loop, soft or hard (the flush of finalize
\* is apart), at local position p takes bytes [0, p) of the
\* buffer as the chunk, deletes advance = max(1, p - overlap_bytes) bytes
\* from the front of the buffer, adds advance to global_offset, sets
\* chunk_start_offset to global_offset, empties the candidate ring, clears
\* best_boundary, zeroes the soft-trigger count and leaves the normalizers
\* as they were.
C19_CommitEffect ==
    last_commit # None =>
        LET before == last_commit.before
            p == last_commit.boundary.position
            advance == Max(1, p - config.overlap_bytes)
            chunk == emitted[Len(emitted)]
        IN /\ 1 <= p /\ p <= Len(before.buffer)
           /\ chunk.content = SubSeq(before.buffer, 1, p)
           /\ chunk.byte_start = before.chunk_start_offset
           /\ chunk.byte_end = before.chunk_start_offset + p
           /\ state.buffer = SubSeq(before.buffer, advance + 1, Len(before.buffer))
           /\ state.global_offset = before.global_offset + advance
           /\ state.chunk_start_offset = state.global_offset
           /\ state.candidates = << >>
           /\ state.best_boundary = None
           /\ state.soft_trigger_count = 0
           /\ state.normalizers = before.normalizers

\* a commit with overlap that leaves part of the buffer, made when the ring
\* held candidates and the normalizers held samples
C19_Witness ==
    /\ last_commit # None
    /\ config.overlap_bytes > 0
    /\ last_commit.boundary.position > config.overlap_bytes + 1
    /\ last_commit.before.candidates # << >>
    /\ last_commit.before.normalizers > 0
    /\ last_commit.before.soft_trigger_count > 0
    /\ state.buffer # << >>

\* the cut of a hard-trigger step, against the state the step began in
HardCut ==
    /\ last_commit # None
    /\ last_commit.at = "hard"
    /\ LET entry == last_commit.entry
           L == Len(entry.buffer)
           lo == config.min_bytes
           hi == Min(config.max_bytes, L)
           cut == last_commit.boundary
           inRange(cand) == lo <= cand.position /\ cand.position <= hi
           recorded == SelectSeq(entry.candidates, inRange)
       IN /\ lo <= cut.position /\ cut.position <= hi
          /\ ChunkLength(emitted[Len(emitted)]) = cut.position
          /\ IF recorded # << >>
             THEN /\ \E i \in 1..Len(recorded) : recorded[i] = cut
                  /\ \A i \in 1..Len(recorded) : recorded[i].score <= cut.score
                  /\ last_commit.before.normalizers = entry.normalizers
             ELSE /\ cut = ScoredCandidate(entry, config, cut.position, cut.position)
                  /\ \A q \in lo..hi :
                        ScoredCandidate(entry, config, q, q).score <= cut.score

\* C20: whenever the buffer holds L >= max_bytes bytes the next step of the
\* decision loop commits a chunk cut in [min_bytes, min(max_bytes, L)]: at the
\* highest-scoring candidate the ring holds in that range, with no position
\* rescored, or, when the ring holds none, at the highest-scoring position
\* of the rescored range.
C20_HardTrigger ==
    [][((\E g \in 1..Len(gens) : gens[g].status = "running")
        /\ Len(state.buffer) >= config.max_bytes)
          => /\ Len(emitted') = Len(emitted) + 1
             /\ last_commit' # None
             /\ last_commit'.entry = state
             /\ HardCut']_vars

\* a hard-trigger cut at a candidate of the ring chosen among several
C20_Witness ==
    /\ HardCut
    /\ \E i, j \in 1..Len(last_commit.entry.candidates) :
          /\ last_commit.entry.candidates[i].position >= config.min_bytes
          /\ last_commit.entry.candidates[j].position >= config.min_bytes
          /\ last_commit.entry.candidates[i].score
                < last_commit.entry.candidates[j].score

\* the number of entries at the end of the ring that met the soft trigger
RECURSIVE SustainedAtEnd(_)
SustainedAtEnd(ring) ==
    IF ring = << >> THEN 0
    ELSE IF ring[Len(ring)].score >= config.soft_trigger_threshold * ScoreScale(config)
    THEN 1 + SustainedAtEnd(SubSeq(ring, 1, Len(ring) - 1))
    ELSE 0

\* C21: the soft-trigger counter is the number of most recent scored
\* positions since the last commit that all met soft_trigger_threshold (a
\* position below it resets the counter to 0); a soft-trigger commit happens
\* only when soft_trigger_sustain_steps of them did, and cuts at the
\* highest-scoring candidate recorded in the open chunk, the earliest of
\* equal scores.
C21_SoftTrigger ==
    /\ state.soft_trigger_count = SustainedAtEnd(state.candidates)
    /\ (last_commit # None /\ last_commit.at = "soft") =>
          LET ring == last_commit.before.candidates
              cut == last_commit.boundary
          IN /\ last_commit.before.soft_trigger_count = SustainedAtEnd(ring)
             /\ SustainedAtEnd(ring) >= config.soft_trigger_sustain_steps
             /\ ring = Append(last_commit.entry.candidates, ring[Len(ring)])
             /\ \E i \in 1..Len(ring) : ring[i] = cut
             /\ \A i \in 1..Len(ring) :
                   /\ ring[i].score <= cut.score
                   /\ ring[i].score = cut.score => cut.position <= ring[i].position
             /\ ChunkLength(emitted[Len(emitted)]) = cut.position

\* a soft-trigger commit after two sustained positions, cut before the
\* current position at the earlier of two equal best candidates
C21_Witness ==
    /\ last_commit # None
    /\ last_commit.at = "soft"
    /\ config.soft_trigger_sustain_steps = 2
    /\ LET ring == last_commit.before.candidates
       IN /\ Len(ring) >= 3
          /\ last_commit.boundary.position < ring[Len(ring)].position
          /\ ring[Len(ring)].score = last_commit.boundary.score
          /\ \E i \in 1..Len(ring) :
                ring[i].score < config.soft_trigger_threshold * ScoreScale(config)

\* C22: finalize consumed after every earlier feed was consumed emits, when
\* the buffer is not empty, exactly one chunk, from chunk_start_offset to the
\* end of the stream, and leaves the buffer empty; when the buffer is empty
\* it emits nothing and raises nothing.
C22_Finalization ==
    [][\A g \in 1..Len(gens) :
          /\ (gens[g].kind = "finalize" /\ gens[g].status = "running") =>
                IF state.buffer # << >>
                THEN /\ Len(emitted') = Len(emitted) + 1
                     /\ emitted'[Len(emitted')].byte_start = state.chunk_start_offset
                     /\ emitted'[Len(emitted')].byte_end = Len(fed)
                     /\ emitted'[Len(emitted')].content = state.buffer
                     /\ state'.buffer = << >>
                     /\ gens'[g].status = "suspended"
                ELSE /\ emitted' = emitted
                     /\ state'.buffer = << >>
                     /\ gens'[g].status = "done"
          /\ (gens[g].kind = "finalize" /\ gens[g].status = "suspended") =>
                (gens'[g].status = "done" /\ emitted' = emitted)]_vars

\* finalize has flushed a buffer of several bytes after chunks cut with
\* overlap, and has been consumed
C22_Witness ==
    /\ config.overlap_bytes > 0
    /\ Len(emitted) >= 2
    /\ ChunkLength(emitted[Len(emitted)]) >= 2
    /\ emitted[Len(emitted)].byte_end = Len(fed)
    /\ state.buffer = << >>
    /\ \E g \in 1..Len(gens) :
          gens[g].kind = "finalize" /\ gens[g].status = "done" /\ ~gens[g].late

\* C23: with micro_overlap_bytes < micro_chunk_bytes, micro_chunk on a
\* region [s, e) returns chunks that lie inside [s, e), are at most
\* micro_chunk_bytes long, together cover [s, e), and of which every two
\* consecutive ones overlap by exactly micro_overlap_bytes.
C23_MicroChunks ==
    (micro_call # None /\ micro_call.returned # None) =>
        LET cs == micro_call.returned.chunks
            h == micro_call.config
        IN /\ \A i \in 1..Len(cs) :
                 /\ micro_call.start <= cs[i].byte_offset_start
                 /\ cs[i].byte_offset_start < cs[i].byte_offset_end
                 /\ cs[i].byte_offset_end <= micro_call.end
                 /\ cs[i].byte_offset_end - cs[i].byte_offset_start
                       <= h.micro_chunk_bytes
           /\ \A b \in micro_call.start..(micro_call.end - 1) :
                 \E i \in 1..Len(cs) :
                     cs[i].byte_offset_start <= b /\ b < cs[i].byte_offset_end
           /\ \A i \in 1..(Len(cs) - 1) :
                 cs[i].byte_offset_end - cs[i + 1].byte_offset_start
                     = h.micro_overlap_bytes

\* the byte ranges of a chunk sequence
Ranges(cs) == [i \in 1..Len(cs) |-> << cs[i].byte_start, cs[i].byte_end >>]

\* C24: two streaming sessions of one configuration that receive the same
\* bytes emit the same chunk ranges, however the bytes are split into feed
\* fragments: a finished session emits what the session emits that receives
\* its bytes as one fragment.
C24_FragmentationIndependence ==
    (finalized /\ AllExhausted) =>
        LET one == OneFragmentSession(fed, config)
        IN one.returned => Ranges(emitted) = Ranges(one.chunks)

\* C25: in chunk_offline the L signal recorded for a chunk cut at position
\* p is p minus the chunk's byte_start, the chunk's length, for the first
\* and for every later chunk cut by the greedy loop.
C25_OfflineLengthSignal ==
    pc = "loop" =>
        \A i \in 1..Len(chunks) :
            /\ chunks[i].signals.L = chunks[i].byte_end - chunks[i].byte_start
            /\ chunks[i].normalized_signals.L = chunks[i].signals.L

\* C26: the manifest of the chunks of an input of N bytes has total_bytes
\* = N, with and without the original content passed to generate_manifest,
\* for every overlap_bytes.
C26_ManifestTotalBytes ==
    \A k \in 1..Len(manifests) :
        /\ (gens = << >> /\ manifests[k].chunks = chunks)
              => manifests[k].manifest.total_bytes = Len(data)
        /\ (gens # << >> /\ finalized /\ manifests[k].chunks = emitted)
              => manifests[k].manifest.total_bytes = Len(fed)

\* StreamingChunker.total_bytes_processed
total_bytes_processed == state.global_offset + Len(state.buffer)

\* C27: whenever every feed and finalize call made has been consumed,
\* chunk_start_offset equals global_offset and global_offset + len(buffer)
\* is the number of bytes fed, so total_bytes_processed counts every byte
\* once.
C27_OffsetsConsistent ==
    AllExhausted =>
        /\ state.chunk_start_offset = state.global_offset
        /\ total_bytes_processed = Len(fed)

\* after commits with overlap and a further feed, bytes are waiting in the
\* buffer behind a moved offset
C27_Witness ==
    /\ AllExhausted
    /\ gens # << >>
    /\ config.overlap_bytes > 0
    /\ Len(emitted) >= 2
    /\ state.global_offset > 0
    /\ Len(state.buffer) >= 2
    /\ total_bytes_processed = Len(fed)

\* C28: feeding an empty fragment to a chunker that is not finalized emits
\* no chunk and leaves the state as it was: buffer, offsets, candidate
\* ring, best candidate, soft-trigger counter and normalizers.
C28_EmptyFeedNoEffect ==
    (AllExhausted /\ ~finalized) =>
        LET r == FeedConsumed(state, << >>, config)
        IN r.returned => (r.chunks = << >> /\ r.state = state)

\* C29: in a streaming session every emitted chunk, the finalization chunk
\* included, ends strictly after the chunk emitted before it, so that it
\* holds at least one byte no earlier chunk holds.
C29_StreamEndIncreases ==
    \A i \in 2..Len(emitted) : emitted[i].byte_end > emitted[i - 1].byte_end

\* the candidates chunk_offline considers for the chunk that starts at cs
CandidatesOfChunk(cs) == Candidates(data, config, AllScores(data, config), cs)

\* C30: _find_local_maxima returns at least one entry for every non-empty
\* list, and the best of what it returns has the greatest score of the list;
\* so in chunk_offline every chunk but the last that is cut among candidates
\* gets a non-empty list of maxima (the fallback is not taken) and its
\* cut_score is the greatest score of the candidates in
\* [current_start + min_bytes, current_start + max_bytes].
C30_LocalMaximaNeverEmpty ==
    /\ (maxima_call # None /\ maxima_call.returned # None
            /\ maxima_call.scores # << >>)
          => /\ maxima_call.returned.maxima # << >>
             /\ PyMaxByScore(maxima_call.returned.maxima).score
                    = PyMaxByScore(maxima_call.scores).score
    /\ \A i \in 1..Len(chunks) :
          LET candidates == CandidatesOfChunk(chunks[i].byte_start)
              maxima == _find_local_maxima(candidates, config.min_bytes \div 4)
          IN ((i < Len(chunks) \/ pc # "done") /\ candidates # << >>)
                => /\ maxima # << >>
                   /\ chunks[i].cut_score = PyMaxByScore(candidates).score
                   /\ \E k \in 1..Len(candidates) :
                         /\ candidates[k].pos = chunks[i].byte_end
                         /\ candidates[k].score = chunks[i].cut_score

\* chunk_offline has cut a chunk among several candidates of which a tie
\* within min_distance left fewer maxima than candidates
C30_Witness ==
    /\ pc = "loop"
    /\ config.min_bytes \div 4 >= 1
    /\ \E i \in 1..Len(chunks) :
          LET candidates == CandidatesOfChunk(chunks[i].byte_start)
              maxima == _find_local_maxima(candidates, config.min_bytes \div 4)
          IN /\ Len(candidates) >= 2
             /\ \A k \in 1..Len(candidates) :
                   candidates[k].score = candidates[1].score
             /\ maxima # << >>
             /\ Len(maxima) < Len(candidates)
             /\ chunks[i].cut_score = PyMaxByScore(candidates).score

====
